---- MODULE Spec2Model ----
(***************************************************************************)
(* Model of graph_grouper.cpp: the iterative dominator computation of      *)
(* DominatorInfo, the recursive region selection add_nodes, and the        *)
(* plugin entry point run that ties them to the host.                      *)
(***************************************************************************)
EXTENDS Integers, Sequences, FiniteSets, TLC

\* Bounds of the model: graphs of NumNodes nodes and at most MaxEdges edges.
NumNodes == 4
MaxEdges == 3

Nodes == 0 .. (NumNodes - 1)

VARIABLES
    pc,         \* position in run(): "start", "dom", "curnode", "text", "select", "done"
    succs,      \* graph: node -> ordered successor list
    preds,      \* graph: node -> ordered predecessor list
    entry,      \* graph->entry()
    stop,       \* node -> the node's first address carries a "GG:stop" comment
    doms,       \* DominatorInfo::doms, node -> bitsett
    t,          \* the constructor's scratch bitsett
    changed,    \* the constructor's changed flag
    it,         \* the constructor's node iterator (NumNodes = graph->end())
    p,          \* the constructor's predecessor index
    startNode,  \* run's startNode (-1: none selected)
    groupText,  \* run's groupText
    nodeSet,    \* run's nodeSet, the intvec_t add_nodes fills
    stack,      \* call stack of add_nodes: frames [node, s]; s = -1 before line 168
    queries,    \* node -> number of is_end_node calls made for it
    groups,     \* groups handed to viewer_create_groups
    lastMsg,    \* last msg()/warning() text
    ret         \* run's return value: "none", "false", "true"

vars == <<pc, succs, preds, entry, stop, doms, t, changed, it, p, startNode,
          groupText, nodeSet, stack, queries, groups, lastMsg, ret>>

graphVars == <<succs, preds, entry, stop>>
domVars == <<doms, t, changed, it, p>>
selVars == <<startNode, groupText, nodeSet, stack, queries, groups>>

(***************************************************************************)
(* The host graph (mutable_graph_t) as the code reads it.                  *)
(***************************************************************************)
nsucc(node) == Len(succs[node])
succ(node, s) == succs[node][s + 1]
npred(node) == Len(preds[node])
pred(node, q) == preds[node][q + 1]

RECURSIVE Perms(_)
Perms(S) == IF S = {} THEN {<<>>}
            ELSE UNION {{<<x>> \o q : q \in Perms(S \ {x})} : x \in S}

AllEdges == Nodes \X Nodes

RECURSIVE EdgeSets(_)
EdgeSets(k) == IF k = 0 THEN {{}}
               ELSE LET P == EdgeSets(k - 1)
                    IN P \cup {S \cup {e} : S \in P, e \in AllEdges}

SuccSet(E, n) == {m \in Nodes : <<n, m>> \in E}
PredSet(E, n) == {m \in Nodes : <<m, n>> \in E}

\* every way to order the successor lists of nodes 0 .. n-1
RECURSIVE SuccOrders(_, _)
SuccOrders(E, n) ==
    IF n = 0 THEN {<<>>}
    ELSE {Append(f, q) : f \in SuccOrders(E, n - 1), q \in Perms(SuccSet(E, n - 1))}

\* every way to order the predecessor lists of nodes 0 .. n-1
RECURSIVE PredOrders(_, _)
PredOrders(E, n) ==
    IF n = 0 THEN {<<>>}
    ELSE {Append(f, q) : f \in PredOrders(E, n - 1), q \in Perms(PredSet(E, n - 1))}

AsNodeMap(f) == [n \in Nodes |-> f[n + 1]]

(***************************************************************************)
(* class bitsett (a std::vector<bool> of size NumNodes).                   *)
(***************************************************************************)
BitOr(a, b) == [i \in DOMAIN a |-> IF a[i] = FALSE /\ b[i] = TRUE THEN TRUE ELSE a[i]]
BitAnd(a, b) == [i \in DOMAIN a |-> IF a[i] = TRUE /\ b[i] = FALSE THEN FALSE ELSE a[i]]
BitSetAll(a) == [i \in DOMAIN a |-> TRUE]
BitSet(a, n) == [a EXCEPT ![n] = TRUE]
BitReset(a) == [i \in DOMAIN a |-> FALSE]
BitTest(a, n) == a[n]

ZeroBits == [i \in Nodes |-> FALSE]

\* Does node dominate node2?
dominates_node(node, node2) == BitTest(doms[node2], node)

Init ==
    /\ pc = "start"
    /\ \E E \in EdgeSets(MaxEdges) :
         /\ \E f \in SuccOrders(E, NumNodes) : succs = AsNodeMap(f)
         /\ \E f \in PredOrders(E, NumNodes) : preds = AsNodeMap(f)
    /\ entry \in Nodes
    /\ stop \in [Nodes -> BOOLEAN]
    /\ doms = [n \in Nodes |-> ZeroBits]
    /\ t = ZeroBits
    /\ changed = FALSE
    /\ it = 0
    /\ p = 0
    /\ startNode = -1
    /\ groupText = ""
    /\ nodeSet = <<>>
    /\ stack = <<>>
    /\ queries = [n \in Nodes |-> 0]
    /\ groups = <<>>
    /\ lastMsg = ""
    /\ ret = "none"

(***************************************************************************)
(* run, lines 213-227, and DominatorInfo::DominatorInfo                    *)
(***************************************************************************)
\* get_current_viewer() or get_viewer_graph() yields NULL
RunNoGraph ==
    /\ pc = "start"
    /\ \E m \in {"graphViewer is null", "graph is null"} : lastMsg' = m
    /\ ret' = "false"
    /\ pc' = "done"
    /\ UNCHANGED <<graphVars, domVars, selVars>>

\* a slip: lines 90-91 left out, the entry starts with the full set like the rest
InitDomsEntryFull == [n \in Nodes |-> BitSetAll(ZeroBits)]

\* the constructor's initialisation, lines 79-95
InitDoms ==
    LET full == [n \in Nodes |-> BitSetAll(ZeroBits)]
    IN [full EXCEPT ![entry] = BitSet(BitReset(full[entry]), entry)]

RunConstruct ==
    /\ pc = "start"
    /\ doms' = InitDoms
    /\ t' = BitReset(ZeroBits)
    /\ changed' = FALSE
    /\ it' = 0
    /\ p' = 0
    /\ pc' = "dom"
    /\ UNCHANGED <<graphVars, selVars, lastMsg, ret>>

\* a slip: line 113, doms[node].set(node), left out
UpdatedSetNoSelf(node, q) == BitAnd(doms[node], doms[pred(node, q)])

\* lines 112-113: the new value of doms[node] after meeting predecessor q
UpdatedSet(node, q) == BitSet(BitAnd(doms[node], doms[pred(node, q)]), node)

\* a slip: line 110, t.reset(), left out
SnapshotNoReset(old, d) == BitOr(old, d)

\* lines 110-111: t becomes a copy of doms[node]
Snapshot(old, d) == BitOr(BitReset(old), d)

\* one iteration of the inner loop, lines 107-117
DomUpdate ==
    /\ pc = "dom"
    /\ it < NumNodes
    /\ it # entry
    /\ p < npred(it)
    /\ t' = Snapshot(t, doms[it])
    /\ doms' = [doms EXCEPT ![it] = UpdatedSet(it, p)]
    /\ changed' = IF doms'[it] # t' THEN TRUE ELSE changed
    /\ p' = p + 1
    /\ UNCHANGED <<pc, it, graphVars, selVars, lastMsg, ret>>

\* ++iterator: the entry node is skipped, a finished node is left
DomNextNode ==
    /\ pc = "dom"
    /\ it < NumNodes
    /\ (it = entry \/ p >= npred(it))
    /\ it' = it + 1
    /\ p' = 0
    /\ UNCHANGED <<pc, doms, t, changed, graphVars, selVars, lastMsg, ret>>

\* the value of while (changed) at line 119
LoopAgain == changed

DomWhile ==
    /\ pc = "dom"
    /\ it = NumNodes
    /\ IF LoopAgain
       THEN /\ changed' = FALSE
            /\ it' = 0
            /\ p' = 0
            /\ pc' = pc
       ELSE /\ pc' = "curnode"
            /\ UNCHANGED <<changed, it, p>>
    /\ UNCHANGED <<doms, t, graphVars, selVars, lastMsg, ret>>

(***************************************************************************)
(* run, lines 229-262                                                      *)
(***************************************************************************)
\* viewer_get_curnode, lines 229-237
RunCurNode ==
    /\ pc = "curnode"
    /\ \E cur \in Nodes \cup {-1} :
         /\ startNode' = cur
         /\ IF cur = -1
            THEN /\ lastMsg' = "Please select a node to start grouping from."
                 /\ ret' = "false"
                 /\ pc' = "done"
            ELSE /\ pc' = "text"
                 /\ UNCHANGED <<lastMsg, ret>>
    /\ UNCHANGED <<graphVars, domVars, groupText, nodeSet, stack, queries, groups>>

\* the texts getGroupText can return: "" when ask_text is cancelled (or the
\* user enters nothing), the entered text otherwise
GroupTexts == {"", "grp"}

\* a slip: the length check of line 241 left out
TextAcceptedAlways(text) == TRUE

\* line 241: does run go on to select and group?
TextAccepted(text) == Len(text) # 0

\* lines 239-250: getGroupText, the cancel check, and the call of add_nodes
RunGetGroupText ==
    /\ pc = "text"
    /\ \E text \in GroupTexts :
         /\ groupText' = text
         /\ IF TextAccepted(text)
            THEN /\ stack' = IF startNode >= 0
                              THEN <<[node |-> startNode, s |-> -1]>>
                              ELSE stack
                 /\ pc' = "select"
                 /\ UNCHANGED <<lastMsg, ret>>
            ELSE /\ lastMsg' = "Cancelling as no group text was entered.\n"
                 /\ ret' = "false"
                 /\ pc' = "done"
                 /\ UNCHANGED stack
    /\ UNCHANGED <<graphVars, domVars, startNode, nodeSet, queries, groups>>

(***************************************************************************)
(* add_nodes and is_end_node                                               *)
(***************************************************************************)
\* a slip: the start node is taken without the end-node test
is_end_node_not_start(node) == stop[node] /\ node # startNode

\* search_comment(calc_group_ea({node}), "GG:stop")
is_end_node(node) == stop[node]

\* intvec_t::has
Has(vec, n) == \E i \in 1 .. Len(vec) : vec[i] = n

Top == stack[Len(stack)]
Pop == SubSeq(stack, 1, Len(stack) - 1)

\* a slip: the push_back placed before the end-node test
EnteredPushFirst(node) == Append(nodeSet, node)

\* lines 168-171: nodes after add_nodes is entered for node
Entered(node) == IF is_end_node(node) THEN nodeSet ELSE Append(nodeSet, node)

\* lines 168-171: the end-node test and the push_back
AddNodesEnter ==
    /\ pc = "select"
    /\ stack # <<>>
    /\ Top.s = -1
    /\ queries' = [queries EXCEPT ![Top.node] = @ + 1]
    /\ nodeSet' = Entered(Top.node)
    /\ stack' = IF is_end_node(Top.node)
                THEN Pop
                ELSE [stack EXCEPT ![Len(stack)].s = 0]
    /\ UNCHANGED <<pc, graphVars, domVars, startNode, groupText, groups, lastMsg, ret>>

\* a slip: the dominance test of line 177 left out
ShouldAddNoDom(sc) == ~Has(nodeSet, sc)

\* a slip: the membership test of line 177 looks at the caller only
ShouldAddNotCaller(sc) == sc # Top.node /\ dominates_node(startNode, sc)

\* line 177: is the successor entered?
ShouldAdd(sc) == ~Has(nodeSet, sc) /\ dominates_node(startNode, sc)

\* a slip: the loop bound of line 172 off by one
MoreSuccsOffByOne(fr) == fr.s < nsucc(fr.node) - 1

\* line 172: the loop condition s < graph->nsucc(node)
MoreSuccs(fr) == fr.s < nsucc(fr.node)

\* lines 172-181: one iteration of the successor loop
AddNodesLoop ==
    /\ pc = "select"
    /\ stack # <<>>
    /\ Top.s >= 0
    /\ MoreSuccs(Top)
    /\ LET sc == succ(Top.node, Top.s)
           next == [stack EXCEPT ![Len(stack)].s = @ + 1]
       IN stack' = IF ShouldAdd(sc)
                   THEN Append(next, [node |-> sc, s |-> -1])
                   ELSE next
    /\ UNCHANGED <<pc, graphVars, domVars, startNode, groupText, nodeSet, queries,
                   groups, lastMsg, ret>>

\* line 183: the loop is over, add_nodes returns
AddNodesReturn ==
    /\ pc = "select"
    /\ stack # <<>>
    /\ Top.s >= 0
    /\ ~MoreSuccs(Top)
    /\ stack' = Pop
    /\ UNCHANGED <<pc, graphVars, domVars, startNode, groupText, nodeSet, queries,
                   groups, lastMsg, ret>>

\* lines 252-262: the group is created from nodeSet and groupText
RunCreateGroups ==
    /\ pc = "select"
    /\ stack = <<>>
    /\ groups' = Append(groups, [nodes |-> nodeSet, text |-> groupText])
    /\ ret' = "true"
    /\ pc' = "done"
    /\ UNCHANGED <<graphVars, domVars, startNode, groupText, nodeSet, stack, queries,
                   lastMsg>>

NextDom == RunConstruct \/ DomUpdate \/ DomNextNode \/ DomWhile

NextSel == RunCurNode \/ RunGetGroupText \/ AddNodesEnter \/ AddNodesLoop
             \/ AddNodesReturn \/ RunCreateGroups

Next == RunNoGraph \/ NextDom \/ NextSel

Spec == Init /\ [][Next]_vars

\* The constructor alone; the stop comments play no part in it.
InitDom == Init /\ stop = [n \in Nodes |-> FALSE]

NextCtor == RunNoGraph \/ NextDom

DomSpec == InitDom /\ [][NextCtor]_vars

\* run is one thread of straight-line code: a step that can be taken is taken
DomFairSpec == DomSpec /\ WF_vars(NextCtor)

\* The selection on the graphs whose entry is node 0 and whose predecessor lists
\* are ascending: add_nodes reads the successor lists and the finished table
\* only, and every graph is one of these up to the numbering of its nodes.
InitSel ==
    /\ Init
    /\ entry = 0
    /\ \A n \in Nodes : \A i \in 1 .. Len(preds[n]), j \in 1 .. Len(preds[n]) :
         i < j => preds[n][i] < preds[n][j]

SelFairSpec == InitSel /\ [][Next]_vars /\ WF_vars(Next)

(***************************************************************************)
(* Notions the properties are stated in                                    *)
(***************************************************************************)
Elems(vec) == {vec[i] : i \in 1 .. Len(vec)}

\* the nodes reachable from S along edges that stay inside Allowed
RECURSIVE Closure(_, _)
Closure(S, Allowed) ==
    LET nxt == S \cup {m \in Allowed : \E n \in S : Has(succs[n], m)}
    IN IF nxt = S THEN S ELSE Closure(nxt, Allowed)

\* the nodes some path from the entry reaches without passing through a
ReachAvoiding(a) == IF a = entry THEN {} ELSE Closure({entry}, Nodes \ {a})

\* every path from the entry to b contains a
EveryPathContains(a, b) == b \notin ReachAvoiding(a)

Reachable == Closure({entry}, Nodes)

\* the constructor has returned
Constructed ==
    \/ pc \in {"curnode", "text", "select"}
    \/ (pc = "done" /\ lastMsg \notin {"graphViewer is null", "graph is null"})

\* the nodes s may own: not end nodes, dominated by s
Ownable(s) == {n \in Nodes : ~stop[n] /\ dominates_node(s, n)}

\* the nodes reachable from s along paths of ownable nodes, s included
RegionOf(s) == IF s \in Ownable(s) THEN Closure({s}, Ownable(s)) ELSE {}

\* add_nodes(graph, d, nodes, s, s) has returned to run
Selected == pc = "done" /\ ret = "true"

(***************************************************************************)
(* C1                                                                      *)
(***************************************************************************)
\* C1: once the constructor has returned, dominates_node(a, b) is true exactly
\* when every path from the entry to b contains a (so an unreachable b is
\* dominated by every node, and the entry only by itself).
C1_DominatorsExact ==
    Constructed =>
        \A a \in Nodes, b \in Nodes : dominates_node(a, b) <=> EveryPathContains(a, b)

\* a built table with a proper non-entry dominator, a reachable node that one of
\* its predecessors does not dominate, and an unreachable node
C1_Witness ==
    /\ Constructed
    /\ \E a \in Nodes, b \in Reachable :
         a # b /\ a # entry /\ dominates_node(a, b)
    /\ \E b \in Reachable \ {entry} :
         \E q \in 0 .. (npred(b) - 1) : ~dominates_node(pred(b, q), b)
    /\ \E b \in Nodes \ Reachable : \A a \in Nodes : dominates_node(a, b)

(***************************************************************************)
(* C2                                                                      *)
(***************************************************************************)
\* C2: every node add_nodes has put into the result is dominated by the start node.
C2_RegionConfined ==
    \A i \in 1 .. Len(nodeSet) : dominates_node(startNode, nodeSet[i])

\* a finished selection of several nodes that left out a successor of a region
\* node because the start node does not dominate it
C2_Witness ==
    /\ Selected
    /\ Len(nodeSet) >= 2
    /\ \E n \in Elems(nodeSet) :
         \E m \in Elems(succs[n]) : ~stop[m] /\ ~dominates_node(startNode, m)

(***************************************************************************)
(* C3                                                                      *)
(***************************************************************************)
\* C3: no end node is ever a member of the region, and a selection started on an
\* end node returns (and groups) the empty region.
C3_BoundaryExcluded ==
    /\ \A i \in 1 .. Len(nodeSet) : ~stop[nodeSet[i]]
    /\ (Selected /\ stop[startNode]) => (nodeSet = <<>> /\ groups[1].nodes = <<>>)
    /\ \A g \in 1 .. Len(groups) : \A i \in 1 .. Len(groups[g].nodes) :
         ~stop[groups[g].nodes[i]]

\* a finished selection that met an end node among the successors
C3_Witness ==
    /\ Selected
    /\ nodeSet # <<>>
    /\ \E n \in Nodes : stop[n] /\ queries[n] > 0

\* a finished selection that was started on an end node
C3_WitnessStart == Selected /\ stop[startNode] /\ nsucc(startNode) > 0

(***************************************************************************)
(* C4                                                                      *)
(***************************************************************************)
\* C4: whatever the order of the successor lists, the finished selection holds
\* exactly the nodes reachable from the start node along paths of nodes that are
\* not end nodes and are dominated by the start node.
C4_MembershipByPaths ==
    Selected => /\ Elems(nodeSet) = RegionOf(startNode)
                /\ Elems(groups[1].nodes) = RegionOf(startNode)

\* a finished selection in which a region node's successors, both taken, were
\* listed in descending order
C4_Witness ==
    /\ Selected
    /\ \E n \in Elems(nodeSet) :
         /\ nsucc(n) >= 2
         /\ succ(n, 0) > succ(n, 1)
         /\ succ(n, 0) # n /\ succ(n, 1) # n
         /\ {succ(n, 0), succ(n, 1)} \subseteq Elems(nodeSet)

(***************************************************************************)
(* C5                                                                      *)
(***************************************************************************)
\* C5: the constructor's do/while loop ends: from the first pass on, a pass in
\* which nothing changed is reached and the constructor returns.
C5_ConstructionTerminates == (pc = "dom") ~> (pc = "curnode")

\* the constructor has returned for a graph with a self-loop, an edge
\* back into the entry and an unreachable node
C5_Witness ==
    /\ pc = "curnode"
    /\ \E n \in Nodes : Has(succs[n], entry)
    /\ \E n \in Nodes \ {entry} : Has(succs[n], n)
    /\ \E n \in Nodes : n \notin Reachable

(***************************************************************************)
(* C6                                                                      *)
(***************************************************************************)
\* C6: when getGroupText has yielded the empty string, run has returned false
\* without entering add_nodes (no end-node test, no frame, no node collected)
\* and without creating a group.
C6_CancelledLabel ==
    (pc \in {"select", "done"} /\ startNode >= 0 /\ Len(groupText) = 0) =>
        /\ pc = "done"
        /\ ret = "false"
        /\ stack = <<>>
        /\ nodeSet = <<>>
        /\ \A n \in Nodes : queries[n] = 0
        /\ groups = <<>>

\* run has returned after a cancelled label, with a start node that has successors
C6_Witness ==
    /\ pc = "done"
    /\ startNode >= 0
    /\ Len(groupText) = 0
    /\ lastMsg = "Cancelling as no group text was entered.\n"
    /\ nsucc(startNode) > 0
    /\ ~stop[startNode]

(***************************************************************************)
(* C7                                                                      *)
(***************************************************************************)
\* the chain 0 -> 1 -> 2 -> 3 with entry 0, node 2 the only end node, start node 0
ChainScenario ==
    /\ NumNodes >= 4
    /\ entry = 0
    /\ succs = [n \in Nodes |-> IF n < 3 THEN <<n + 1>> ELSE <<>>]
    /\ stop = [n \in Nodes |-> n = 2]
    /\ startNode = 0

\* C7 as claimed: on the chain the end node 2 is itself added, the selection
\* from 0 returns {0, 1, 2}.
C7_AsClaimed == (ChainScenario /\ Selected) => Elems(nodeSet) = {0, 1, 2}

\* C7 as amended: an end node reached by the selection is not added and its
\* successors are not followed; on the chain the selection from 0 returns
\* exactly {0, 1}, in that order.
C7_BoundaryNotAdded ==
    /\ (ChainScenario /\ Selected) => (nodeSet = <<0, 1>> /\ queries[2] = 1 /\ queries[3] = 0)
    /\ \A n \in Nodes : (stop[n] /\ queries[n] > 0) => ~Has(nodeSet, n)

\* the selection on the chain has returned
C7_Witness == ChainScenario /\ Selected

(***************************************************************************)
(* C8                                                                      *)
(***************************************************************************)
\* C8: a selection ends, and all along it the result holds no node twice (so at
\* most NumNodes additions) and the recursion is at most NumNodes deep.
C8_SelectionBounded ==
    /\ [](/\ \A i \in 1 .. Len(nodeSet), j \in 1 .. Len(nodeSet) :
               nodeSet[i] = nodeSet[j] => i = j
          /\ Len(nodeSet) <= NumNodes
          /\ Len(stack) <= NumNodes)
    /\ (pc = "select") ~> (pc = "done")

\* a finished selection from a start node with a self-loop, on a cycle through
\* another node
C8_Witness ==
    /\ Selected
    /\ Has(succs[startNode], startNode)
    /\ Len(nodeSet) >= 2
    /\ \E n \in Elems(nodeSet) \ {startNode} : Has(succs[n], startNode)

(***************************************************************************)
(* C9                                                                      *)
(***************************************************************************)
\* C9: every update of the constructor's loop leaves each node's set a subset
\* of what it was, with the node itself still in it.
C9_MonotoneShrink ==
    [][pc = "dom" =>
         \A n \in Nodes : /\ \A i \in Nodes : BitTest(doms'[n], i) => BitTest(doms[n], i)
                          /\ BitTest(doms'[n], n)]_vars

\* a pass during which a second predecessor has shrunk a set further
C9_Witness ==
    /\ pc = "dom"
    /\ it < NumNodes
    /\ p >= 2
    /\ changed
    /\ doms[it] # t
    /\ \E i \in Nodes : ~BitTest(doms[it], i)

====
